---------------------------- MODULE Spec2Model ----------------------------
(***************************************************************************)
(* A model of the IPv6 address engine: IPv6Parser (utils/ipv6Parser.ts)    *)
(* and IPv6Subnetting (utils/subnetting.ts).                               *)
(*                                                                         *)
(* A JavaScript string is a sequence of one-character strings, so that     *)
(* split, match, parseInt, toString and padStart are computed character by *)
(* character.  A JavaScript number is an integer; NaN is the record NaN.   *)
(***************************************************************************)
EXTENDS Integers, Sequences, FiniteSets, TLC

VARIABLES
    body,       \* the address text typed or pasted so far
    suffix,     \* the text appended after the body (a "/length" suffix)
    word,       \* the Word128 an operation was applied to (<<>> when none)
    rec,        \* the IPv6Address record returned by the last IPv6Parser.parse
    parsedRec,  \* the ParsedIPv6 of that call (parseIPv6String's result)
    planRes,    \* the outcome of the last IPv6Subnetting.calculateSubnets
    args,       \* the arguments of that call besides the prefix text
    op          \* the last operation applied

vars == <<body, suffix, word, rec, parsedRec, planRes, args, op>>

----------------------------------------------------------------------------
(* Characters and JavaScript's number/string primitives *)

HexChars == <<"0","1","2","3","4","5","6","7","8","9","a","b","c","d","e","f">>

CharValue ==
    ("0" :> 0) @@ ("1" :> 1) @@ ("2" :> 2) @@ ("3" :> 3) @@ ("4" :> 4) @@
    ("5" :> 5) @@ ("6" :> 6) @@ ("7" :> 7) @@ ("8" :> 8) @@ ("9" :> 9) @@
    ("a" :> 10) @@ ("b" :> 11) @@ ("c" :> 12) @@ ("d" :> 13) @@ ("e" :> 14) @@
    ("f" :> 15) @@ ("A" :> 10) @@ ("B" :> 11) @@ ("C" :> 12) @@ ("D" :> 13) @@
    ("E" :> 14) @@ ("F" :> 15)

\* the value of c as a digit in the given radix, or -1 when it is none
DigitValue(c, radix) ==
    IF c \in DOMAIN CharValue /\ CharValue[c] < radix THEN CharValue[c] ELSE -1

IsDecimalDigit(c) == DigitValue(c, 10) >= 0

WhiteSpace == {" "}

NaN == [nan |-> TRUE, val |-> 0]

Num(n) == [nan |-> FALSE, val |-> n]

Min(a, b) == IF a <= b THEN a ELSE b

Max(a, b) == IF a >= b THEN a ELSE b

RECURSIVE Pow(_, _)
Pow(b, e) == IF e = 0 THEN 1 ELSE b * Pow(b, e - 1)

\* s.slice(from) : the characters of s after the first n
Drop(s, n) == SubSeq(s, n + 1, Len(s))

\* s.slice(0, n)
Take(s, n) == SubSeq(s, 1, n)

RECURSIVE TrimStart(_)
TrimStart(s) ==
    IF Len(s) > 0 /\ s[1] \in WhiteSpace THEN TrimStart(Tail(s)) ELSE s

RECURSIVE TrimEnd(_)
TrimEnd(s) ==
    IF Len(s) > 0 /\ s[Len(s)] \in WhiteSpace THEN TrimEnd(Take(s, Len(s) - 1)) ELSE s

\* String.prototype.trim
Trim(s) == TrimEnd(TrimStart(s))

\* whether sep occurs in s at position i
MatchAt(s, sep, i) ==
    /\ i + Len(sep) - 1 <= Len(s)
    /\ \A k \in 1..Len(sep) : s[i + k - 1] = sep[k]

\* the first position >= i where sep occurs in s, or 0
RECURSIVE IndexOf(_, _, _)
IndexOf(s, sep, i) ==
    IF i + Len(sep) - 1 > Len(s) THEN 0
    ELSE IF MatchAt(s, sep, i) THEN i
    ELSE IndexOf(s, sep, i + 1)

\* String.prototype.split(sep) for a non-empty separator: left to right,
\* each occurrence found after the end of the one before it
RECURSIVE Split(_, _)
Split(s, sep) ==
    LET i == IndexOf(s, sep, 1)
    IN IF i = 0 THEN <<s>>
       ELSE <<Take(s, i - 1)>> \o Split(Drop(s, i + Len(sep) - 1), sep)

\* Array.prototype.join(sep)
RECURSIVE Join(_, _)
Join(strs, sep) ==
    IF Len(strs) = 0 THEN <<>>
    ELSE IF Len(strs) = 1 THEN strs[1]
    ELSE strs[1] \o sep \o Join(Tail(strs), sep)

\* Array.prototype.filter(p => p !== '')
RECURSIVE NonEmpty(_)
NonEmpty(strs) ==
    IF Len(strs) = 0 THEN <<>>
    ELSE IF strs[1] = <<>> THEN NonEmpty(Tail(strs))
    ELSE <<strs[1]>> \o NonEmpty(Tail(strs))

\* the length of the longest prefix of s made of digits of the radix
RECURSIVE DigitPrefixLen(_, _)
DigitPrefixLen(s, radix) ==
    IF Len(s) > 0 /\ DigitValue(s[1], radix) >= 0
    THEN 1 + DigitPrefixLen(Tail(s), radix)
    ELSE 0

RECURSIVE DigitsValue(_, _, _)
DigitsValue(s, radix, acc) ==
    IF Len(s) = 0 THEN acc
    ELSE DigitsValue(Tail(s), radix, acc * radix + DigitValue(s[1], radix))

\* parseInt(string, radix): leading white space is skipped, a sign is read,
\* "0x" is skipped for radix 16, then the longest prefix of digits is the
\* value; whatever follows the digits is ignored; no digit at all is NaN
Sign(s) == IF Len(s) > 0 /\ s[1] = "-" THEN -1 ELSE 1

Unsigned(s) == IF Len(s) > 0 /\ s[1] \in {"+", "-"} THEN Tail(s) ELSE s

Unprefixed(s, radix) ==
    IF radix = 16 /\ Len(s) >= 2 /\ s[1] = "0" /\ s[2] \in {"x", "X"}
    THEN Drop(s, 2) ELSE s

DigitsNumber(s, radix, sign, n) ==
    IF n = 0 THEN NaN ELSE Num(sign * DigitsValue(Take(s, n), radix, 0))

SignedNumber(s, radix, sign) == DigitsNumber(s, radix, sign, DigitPrefixLen(s, radix))

ParseTrimmed(s, radix) == SignedNumber(Unprefixed(Unsigned(s), radix), radix, Sign(s))

parseInt(string, radix) == ParseTrimmed(TrimStart(string), radix)

\* the digits of a natural number in the radix, most significant first
RECURSIVE NatToString(_, _)
NatToString(n, radix) ==
    IF n < radix THEN <<HexChars[n + 1]>>
    ELSE NatToString(n \div radix, radix) \o <<HexChars[(n % radix) + 1]>>

\* Number.prototype.toString(radix) of an integer
NumToString(n, radix) ==
    IF n < 0 THEN <<"-">> \o NatToString(-n, radix) ELSE NatToString(n, radix)

\* parseInt(p, 16).toString(16)
ToString16(v) == IF v.nan THEN <<"N", "a", "N">> ELSE NumToString(v.val, 16)

ReHex(p) == ToString16(parseInt(p, 16))

\* String.prototype.padStart(len, ch)
RECURSIVE padStart(_, _, _)
padStart(s, len, ch) == IF Len(s) >= len THEN s ELSE padStart(<<ch>> \o s, len, ch)

\* bitwise operators on two's-complement integers
RECURSIVE BitAnd(_, _)
BitAnd(a, b) ==
    IF a = 0 \/ b = 0 THEN 0
    ELSE IF a = -1 THEN b
    ELSE IF b = -1 THEN a
    ELSE 2 * BitAnd(a \div 2, b \div 2) + (IF a % 2 = 1 /\ b % 2 = 1 THEN 1 ELSE 0)

RECURSIVE BitOr(_, _)
BitOr(a, b) ==
    IF a = 0 THEN b
    ELSE IF b = 0 THEN a
    ELSE IF a = -1 \/ b = -1 THEN -1
    ELSE 2 * BitOr(a \div 2, b \div 2) + (IF a % 2 = 1 \/ b % 2 = 1 THEN 1 ELSE 0)

RECURSIVE BitXor(_, _)
BitXor(a, b) ==
    IF a = 0 THEN b
    ELSE IF b = 0 THEN a
    ELSE IF a = -1 THEN -b - 1
    ELSE IF b = -1 THEN -a - 1
    ELSE 2 * BitXor(a \div 2, b \div 2) + (IF a % 2 # b % 2 THEN 1 ELSE 0)

BitNot(a) == -a - 1

\* a << n and a >> n on 32-bit integers: the shift count is taken modulo 32
\* (the values of the model stay inside 32 bits)
Shl(a, n) == a * Pow(2, n % 32)

Shr(a, n) == a \div Pow(2, n % 32)

----------------------------------------------------------------------------
(* IPv6Parser.parseIPv6String *)

Undefined == "undefined"

Colon == <<":">>

DoubleColon == <<":", ":">>

\* the position of the last "/" of s, or 0
RECURSIVE LastSlash(_, _)
LastSlash(s, i) ==
    IF i = 0 THEN 0 ELSE IF s[i] = "/" THEN i ELSE LastSlash(s, i - 1)

AllDecimal(s) == Len(s) >= 1 /\ \A i \in 1..Len(s) : IsDecimalDigit(s[i])

\* address.match(/^(.+)\/(\d+)$/): <<group 1, group 2>>, or <<>> for no match.
\* Only digits may follow the "/", so it is the last "/" of the text, and at
\* least one character stands before it.
prefixMatch(address) ==
    LET k == LastSlash(address, Len(address))
    IN IF k >= 2 /\ AllDecimal(Drop(address, k))
       THEN <<Take(address, k - 1), Drop(address, k)>>
       ELSE <<>>

MappedLead == <<":", ":", "f", "f", "f", "f", ":">>

LowerCase(c) == IF c = "F" THEN "f" ELSE c

\* address.match(/^::ffff:(\d+\.\d+\.\d+\.\d+)$/i): <<group 1>>, or <<>>
ipv4MappedMatch(address) ==
    LET quad == Drop(address, Len(MappedLead))
        octets == Split(quad, <<".">>)
    IN IF /\ Len(address) > Len(MappedLead)
          /\ \A i \in 1..Len(MappedLead) : LowerCase(address[i]) = MappedLead[i]
          /\ Len(octets) = 4
          /\ \A i \in 1..4 : AllDecimal(octets[i])
       THEN <<quad>>
       ELSE <<>>

\* Number(text) of a text of decimal digits
Number(text) == DigitsValue(text, 10, 0)

Invalid(message) ==
    [hextets |-> <<>>, prefixLength |-> 0, isValid |-> FALSE, error |-> message]

Valid(hextets, prefixLength) ==
    [hextets |-> hextets, prefixLength |-> prefixLength, isValid |-> TRUE,
     error |-> Undefined]

\* one loop over leftParts or rightParts: the empty parts are skipped, each
\* other part is read with parseInt(part, 16) and refused when that is NaN
\* or above 0xffff; [ok, hextets]
RECURSIVE ConvertParts(_)
Prepend(v, rest) ==
    [ok |-> rest.ok, hextets |-> IF rest.ok THEN <<v>> \o rest.hextets ELSE <<>>]

ConvertPart(hexValue, others) ==
    IF hexValue.nan \/ hexValue.val > 65535
    THEN [ok |-> FALSE, hextets |-> <<>>]
    ELSE Prepend(hexValue.val, ConvertParts(others))

ConvertParts(parts) ==
    IF Len(parts) = 0 THEN [ok |-> TRUE, hextets |-> <<>>]
    ELSE IF parts[1] = <<>> THEN ConvertParts(Tail(parts))
    ELSE ConvertPart(parseInt(parts[1], 16), Tail(parts))

Zeros(n) == [i \in 1..Max(n, 0) |-> 0]

\* lines 142-150
LeftParts(parts) ==
    IF Len(parts) = 2
    THEN (IF parts[1] # <<>> THEN Split(parts[1], Colon) ELSE <<>>)
    ELSE Split(parts[1], Colon)

RightParts(parts) ==
    IF Len(parts) = 2
    THEN (IF parts[2] # <<>> THEN Split(parts[2], Colon) ELSE <<>>)
    ELSE <<>>

\* lines 166-171: the zeros a "::" stands for
ZerosNeeded(parts, leftParts, rightParts) ==
    IF Len(parts) = 2
    THEN Zeros(8 - Len(NonEmpty(leftParts)) - Len(NonEmpty(rightParts)))
    ELSE <<>>

\* lines 183-187
CheckLength(hextets, prefixLength) ==
    IF Len(hextets) # 8 THEN Invalid("Invalid IPv6 address format")
    ELSE Valid(hextets, prefixLength)

\* lines 153-187: the left parts, the zeros, the right parts
Assemble(left, zeros, right, prefixLength) ==
    IF ~left.ok \/ ~right.ok THEN Invalid("Invalid hexadecimal value")
    ELSE CheckLength(left.hextets \o zeros \o right.hextets, prefixLength)

ConvertGroups(parts, leftParts, rightParts, prefixLength) ==
    Assemble(ConvertParts(leftParts), ZerosNeeded(parts, leftParts, rightParts),
             ConvertParts(rightParts), prefixLength)

SplitGroups(parts, prefixLength) ==
    IF Len(parts) > 2 THEN Invalid("Multiple :: not allowed")
    ELSE ConvertGroups(parts, LeftParts(parts), RightParts(parts), prefixLength)

\* lines 136-187: the body split on "::" and converted
ParseGroups(address, prefixLength) ==
    SplitGroups(Split(address, DoubleColon), prefixLength)

\* lines 127: ipv4MappedMatch[1].split('.').map(Number), <<>> for no match
Ipv4Parts(m) ==
    IF m = <<>> THEN <<>>
    ELSE [i \in 1..4 |-> Number(Split(m[1], <<".">>)[i])]

\* lines 125-187
ParseMapped(address, prefixLength, ipv4Parts) ==
    IF ipv4Parts # <<>> /\ \A i \in 1..4 : ipv4Parts[i] >= 0 /\ ipv4Parts[i] <= 255
    THEN Valid(<<0, 0, 0, 0, 0, 65535,
                 BitOr(Shl(ipv4Parts[1], 8), ipv4Parts[2]),
                 BitOr(Shl(ipv4Parts[3], 8), ipv4Parts[4])>>, prefixLength)
    ELSE ParseGroups(address, prefixLength)

\* lines 119-187: the body once the prefix length is known
ParseBody(address, prefixLength) ==
    IF address = DoubleColon THEN Valid(Zeros(8), prefixLength)
    ELSE ParseMapped(address, prefixLength, Ipv4Parts(ipv4MappedMatch(address)))

\* lines 114-187
ParseWithLength(address, prefixLength, matched) ==
    IF matched /\ (prefixLength < 0 \/ prefixLength > 128)
    THEN Invalid("Invalid prefix length")
    ELSE ParseBody(address, prefixLength)

\* lines 105-112
ParseMatched(input, m) ==
    ParseWithLength(IF m # <<>> THEN m[1] ELSE input,
                    IF m # <<>> THEN parseInt(m[2], 10).val ELSE 128,
                    m # <<>>)

parseIPv6String(input) == ParseMatched(input, prefixMatch(input))

----------------------------------------------------------------------------
(* BigInt: a two's-complement integer of any size in base-65536 limbs, the   *)
(* most significant first; [neg, limbs] is the sum of the limbs, less        *)
(* 65536^Len(limbs) when neg.                                                *)

RECURSIVE BigInt(_)
BigInt(n) ==
    IF n = 0 THEN [neg |-> FALSE, limbs |-> <<>>]
    ELSE IF n = -1 THEN [neg |-> TRUE, limbs |-> <<>>]
    ELSE LET hi == BigInt(n \div 65536)
         IN [neg |-> hi.neg, limbs |-> hi.limbs \o <<n % 65536>>]

\* x << 16n
BigShl16(x) == [neg |-> x.neg, limbs |-> x.limbs \o <<0>>]

\* x sign-extended to n limbs
BigExtend(x, n) ==
    [i \in 1..(n - Len(x.limbs)) |-> IF x.neg THEN 65535 ELSE 0] \o x.limbs

\* x | y
BigOr(x, y) ==
    LET n == Max(Len(x.limbs), Len(y.limbs))
        xs == BigExtend(x, n)
        ys == BigExtend(y, n)
    IN [neg |-> x.neg \/ y.neg, limbs |-> [i \in 1..n |-> BitOr(xs[i], ys[i])]]

\* limbs divided by ten: <<quotient limbs, remainder>>
RECURSIVE DivMod10(_, _, _)
DivMod10(limbs, quotient, remainder) ==
    IF Len(limbs) = 0 THEN <<quotient, remainder>>
    ELSE LET cur == remainder * 65536 + limbs[1]
         IN DivMod10(Tail(limbs), quotient \o <<cur \div 10>>, cur % 10)

RECURSIVE LimbsToDecimal(_)
LimbsToDecimal(limbs) ==
    IF \A i \in 1..Len(limbs) : limbs[i] = 0 THEN <<>>
    ELSE LET qr == DivMod10(limbs, <<>>, 0)
         IN LimbsToDecimal(qr[1]) \o <<HexChars[qr[2] + 1]>>

\* 65536^Len(limbs) less the sum of the limbs: the magnitude of a negative
RECURSIVE Negated(_, _)
Negated(limbs, carry) ==
    IF Len(limbs) = 0 THEN (IF carry = 1 THEN <<1>> ELSE <<>>)
    ELSE LET v == (65535 - limbs[Len(limbs)]) + carry
         IN Negated(Take(limbs, Len(limbs) - 1), v \div 65536) \o <<v % 65536>>

\* BigInt.prototype.toString()
BigToString(x) ==
    LET digits == LimbsToDecimal(IF x.neg THEN Negated(x.limbs, 1) ELSE x.limbs)
    IN (IF x.neg THEN <<"-">> ELSE <<>>) \o (IF digits = <<>> THEN <<"0">> ELSE digits)

\* the loop of toInteger: result = (result << 16n) | BigInt(hextets[i])
RECURSIVE BigOfHextets(_, _)
BigOfHextets(hextets, result) ==
    IF Len(hextets) = 0 THEN result
    ELSE BigOfHextets(Tail(hextets), BigOr(BigShl16(result), BigInt(hextets[1])))

\* BigInt(2) ** BigInt(k)
BigPow2(k) == [neg |-> FALSE, limbs |-> <<Pow(2, k % 16)>> \o Zeros(k \div 16)]

----------------------------------------------------------------------------
(* IPv6Parser: the renderings *)

RECURSIVE Concat(_)
Concat(strs) == IF Len(strs) = 0 THEN <<>> ELSE strs[1] \o Concat(Tail(strs))

toExpanded(hextets) ==
    Join([i \in 1..Len(hextets) |-> padStart(NumToString(hextets[i], 16), 4, "0")],
         Colon)

ZeroGroup == <<"0", "0", "0", "0">>

\* lines 198-220: the maximal runs of "0000" parts, left to right
RECURSIVE ZeroSequences(_, _, _)
ZeroSequences(parts, i, currentSequence) ==
    IF i > Len(parts)
    THEN (IF currentSequence.start # -1 THEN <<currentSequence>> ELSE <<>>)
    ELSE IF parts[i] = ZeroGroup
    THEN ZeroSequences(parts, i + 1,
             IF currentSequence.start = -1
             THEN [start |-> i - 1, length |-> 1]
             ELSE [start |-> currentSequence.start,
                   length |-> currentSequence.length + 1])
    ELSE (IF currentSequence.start # -1 THEN <<currentSequence>> ELSE <<>>)
         \o ZeroSequences(parts, i + 1, [start |-> -1, length |-> 0])

\* the reduce keeping the last of the longest sequences
RECURSIVE LongestSequenceLast(_, _)
LongestSequenceLast(zeroSequences, longest) ==
    IF Len(zeroSequences) = 0 THEN longest
    ELSE LongestSequenceLast(Tail(zeroSequences),
             IF zeroSequences[1].length >= longest.length
             THEN zeroSequences[1] ELSE longest)

\* lines 223-224: reduce keeps the first of the longest sequences
RECURSIVE LongestSequence(_, _)
LongestSequence(zeroSequences, longest) ==
    IF Len(zeroSequences) = 0 THEN longest
    ELSE LongestSequence(Tail(zeroSequences),
             IF zeroSequences[1].length > longest.length
             THEN zeroSequences[1] ELSE longest)

\* map(p => parseInt(p, 16).toString(16))
ReHexAll(parts) == [i \in 1..Len(parts) |-> ReHex(parts[i])]

NoSequence == [start |-> -1, length |-> 0]

\* toCompressed with one colon where the run of zero groups leads
JoinAroundSingleColon(beforeCompression, afterCompression, start, stop) ==
    IF start = 0
    THEN Colon \o Join(afterCompression, Colon)
    ELSE IF stop = 8
    THEN Join(beforeCompression, Colon) \o DoubleColon
    ELSE Join(beforeCompression, Colon) \o DoubleColon \o Join(afterCompression, Colon)

\* lines 230-237
JoinAround(beforeCompression, afterCompression, start, stop) ==
    IF start = 0
    THEN DoubleColon \o Join(afterCompression, Colon)
    ELSE IF stop = 8
    THEN Join(beforeCompression, Colon) \o DoubleColon
    ELSE Join(beforeCompression, Colon) \o DoubleColon \o Join(afterCompression, Colon)

\* CompressSequence with the slice after the run starting one part late
CompressSequenceLateSlice(parts, longestSequence) ==
    IF longestSequence.length > 1
    THEN JoinAround(ReHexAll(Take(parts, longestSequence.start)),
                    ReHexAll(Drop(parts, longestSequence.start + longestSequence.length + 1)),
                    longestSequence.start,
                    longestSequence.start + longestSequence.length)
    ELSE Join(ReHexAll(parts), Colon)

\* lines 226-243
CompressSequence(parts, longestSequence) ==
    IF longestSequence.length > 1
    THEN JoinAround(ReHexAll(Take(parts, longestSequence.start)),
                    ReHexAll(Drop(parts, longestSequence.start + longestSequence.length)),
                    longestSequence.start,
                    longestSequence.start + longestSequence.length)
    ELSE Join(ReHexAll(parts), Colon)

CompressParts(parts) ==
    CompressSequence(parts,
                     LongestSequence(ZeroSequences(parts, 1, NoSequence), NoSequence))

toCompressed(hextets) == CompressParts(Split(toExpanded(hextets), Colon))

toBinary(hextets) ==
    Join([i \in 1..Len(hextets) |-> padStart(NumToString(hextets[i], 2), 16, "0")],
         <<" ">>)

toHex(hextets) ==
    <<"0", "x">>
    \o Concat([i \in 1..Len(hextets) |-> padStart(NumToString(hextets[i], 16), 4, "0")])

toInteger(hextets) == BigToString(BigOfHextets(hextets, BigInt(0)))

Base64Chars ==
    <<"A","B","C","D","E","F","G","H","I","J","K","L","M","N","O","P",
      "Q","R","S","T","U","V","W","X","Y","Z","a","b","c","d","e","f",
      "g","h","i","j","k","l","m","n","o","p","q","r","s","t","u","v",
      "w","x","y","z","0","1","2","3","4","5","6","7","8","9","+","/">>

\* btoa of the characters whose codes are the bytes
RECURSIVE btoa(_)
btoa(bytes) ==
    IF Len(bytes) = 0 THEN <<>>
    ELSE IF Len(bytes) = 1
    THEN <<Base64Chars[(bytes[1] \div 4) + 1],
           Base64Chars[((bytes[1] % 4) * 16) + 1], "=", "=">>
    ELSE IF Len(bytes) = 2
    THEN <<Base64Chars[(bytes[1] \div 4) + 1],
           Base64Chars[((bytes[1] % 4) * 16 + bytes[2] \div 16) + 1],
           Base64Chars[((bytes[2] % 16) * 4) + 1], "=">>
    ELSE <<Base64Chars[(bytes[1] \div 4) + 1],
           Base64Chars[((bytes[1] % 4) * 16 + bytes[2] \div 16) + 1],
           Base64Chars[((bytes[2] % 16) * 4 + bytes[3] \div 64) + 1],
           Base64Chars[(bytes[3] % 64) + 1]>> \o btoa(Drop(bytes, 3))

toBase64(hextets) ==
    btoa([i \in 1..(2 * Len(hextets)) |->
            IF i % 2 = 1
            THEN BitAnd(Shr(hextets[(i + 1) \div 2], 8), 255)
            ELSE BitAnd(hextets[i \div 2], 255)])

RECURSIVE Reverse(_)
Reverse(s) == IF Len(s) = 0 THEN <<>> ELSE Reverse(Tail(s)) \o <<s[1]>>

Ip6Arpa == <<".", "i", "p", "6", ".", "a", "r", "p", "a">>

toReverseDNS(hextets) ==
    LET nibbles == Reverse(Concat(Split(toExpanded(hextets), Colon)))
    IN Join([i \in 1..Len(nibbles) |-> <<nibbles[i]>>], <<".">>) \o Ip6Arpa

----------------------------------------------------------------------------
(* IPv6Parser: network, range and counts *)

\* getNetworkAddress with the mask shifted by the prefix bits of the partial
\* hextet, not by its host bits
getNetworkAddressPrefixShift(hextets, prefixLength) ==
    LET fullHextets == prefixLength \div 16
        remainingBits == prefixLength % 16
        mask == BitAnd(Shl(65535, remainingBits), 65535)
    IN [i \in 1..Len(hextets) |->
          IF i - 1 < fullHextets THEN hextets[i]
          ELSE IF i - 1 = fullHextets /\ remainingBits > 0
          THEN BitAnd(hextets[i], mask)
          ELSE 0]

\* lines 272-290: the hextets with the bits from the prefix length on cleared
getNetworkAddress(hextets, prefixLength) ==
    LET fullHextets == prefixLength \div 16
        remainingBits == prefixLength % 16
        mask == BitAnd(Shl(65535, 16 - remainingBits), 65535)
    IN [i \in 1..Len(hextets) |->
          IF i - 1 < fullHextets THEN hextets[i]
          ELSE IF i - 1 = fullHextets /\ remainingBits > 0
          THEN BitAnd(hextets[i], mask)
          ELSE 0]

\* lines 293-307: the hextets of the last address
LastHextets(networkHextets, prefixLength) ==
    LET fullHextets == prefixLength \div 16
        remainingBits == prefixLength % 16
        hostMask == Shl(1, 16 - remainingBits) - 1
    IN [i \in 1..Len(networkHextets) |->
          IF i - 1 < fullHextets THEN networkHextets[i]
          ELSE IF i - 1 = fullHextets /\ remainingBits > 0
          THEN BitOr(networkHextets[i], hostMask)
          ELSE 65535]

RangeOf(networkHextets, prefixLength) ==
    [firstAddress |-> toCompressed(networkHextets),
     lastAddress |-> toCompressed(LastHextets(networkHextets, prefixLength))]

getAddressRange(hextets, prefixLength) ==
    RangeOf(getNetworkAddress(hextets, prefixLength), prefixLength)

\* the number of significant digits of String(2 ** k), the shortest decimal
\* that reads back as the same double, for the powers of two above 2 ** 53
ShortestDigits ==
    (54 :> 17) @@ (55 :> 16) @@ (56 :> 16) @@ (57 :> 17) @@ (58 :> 17) @@
    (59 :> 16) @@ (60 :> 16) @@ (61 :> 16) @@ (62 :> 16) @@ (63 :> 16) @@
    (64 :> 17) @@ (65 :> 17) @@ (66 :> 16) @@ (67 :> 17) @@ (68 :> 17) @@
    (69 :> 16) @@ (70 :> 17) @@ (71 :> 17) @@ (72 :> 16) @@ (73 :> 15) @@
    (74 :> 16) @@ (75 :> 16) @@ (76 :> 16) @@ (77 :> 17) @@ (78 :> 16) @@
    (79 :> 16) @@ (80 :> 17)

\* a text of decimal digits plus one
RECURSIVE DecimalSucc(_)
DecimalSucc(digits) ==
    IF Len(digits) = 0 THEN <<"1">>
    ELSE IF digits[Len(digits)] = "9"
    THEN DecimalSucc(Take(digits, Len(digits) - 1)) \o <<"0">>
    ELSE Take(digits, Len(digits) - 1)
         \o <<HexChars[CharValue[digits[Len(digits)]] + 2]>>

\* digits rounded to n significant digits, the rest zeros
RoundDigits(digits, n) ==
    IF Len(digits) <= n THEN digits
    ELSE LET head == IF CharValue[digits[n + 1]] >= 5
                     THEN DecimalSucc(Take(digits, n)) ELSE Take(digits, n)
         IN head \o [i \in 1..(Len(digits) - n) |-> "0"]

\* the digits grouped in threes from the right, as the en-US locale does
RECURSIVE Grouped(_)
Grouped(digits) ==
    IF Len(digits) <= 3 THEN digits
    ELSE Grouped(Take(digits, Len(digits) - 3)) \o <<",">>
         \o Drop(digits, Len(digits) - 3)

\* (2 ** k).toLocaleString(): the double 2^k printed by its shortest digits
Pow2ToLocaleString(k) ==
    LET exact == BigToString(BigPow2(k))
    IN Grouped(IF k \in DOMAIN ShortestDigits
               THEN RoundDigits(exact, ShortestDigits[k]) ELSE exact)

calculateTotalHosts(prefixLength) ==
    LET hostBits == 128 - prefixLength
    IN IF hostBits >= 64
       THEN <<"2", "^">> \o NumToString(hostBits, 10) \o <<" ", "(">>
            \o BigToString(BigPow2(hostBits)) \o <<")">>
       ELSE Pow2ToLocaleString(hostBits)

PrefixTooShort ==
    <<"N","/","A"," ","(","p","r","e","f","i","x"," ","t","o","o"," ",
      "s","h","o","r","t",")">>

calculateTotalSubnets(prefixLength) ==
    LET subnetBits == prefixLength - 48
    IN IF prefixLength >= 64
       THEN (IF subnetBits <= 0 THEN <<"1">> ELSE Pow2ToLocaleString(subnetBits))
       ELSE PrefixTooShort

----------------------------------------------------------------------------
(* IPv6Parser: classification, scope, flags *)

AddressType ==
    [GlobalUnicast |-> "Global Unicast", LinkLocal |-> "Link-Local",
     UniqueLocal |-> "Unique Local (ULA)", Multicast |-> "Multicast",
     Anycast |-> "Anycast", Loopback |-> "Loopback",
     Unspecified |-> "Unspecified", IPv4Mapped |-> "IPv4-Mapped",
     IPv4Compatible |-> "IPv4-Compatible", Reserved |-> "Reserved",
     Documentation |-> "Documentation", Teredo |-> "Teredo",
     SixToFour |-> "6to4"]

AddressScope ==
    [InterfaceLocal |-> "Interface-Local", LinkLocal |-> "Link-Local",
     AdminLocal |-> "Admin-Local", SiteLocal |-> "Site-Local",
     OrganizationLocal |-> "Organization-Local", Global |-> "Global"]

\* hextets.slice(0, n).every(h => h === 0)
FirstZero(hextets, n) == \A i \in 1..n : hextets[i] = 0

\* getAddressType with Anycast for what no rule names
getAddressTypeAnycast(hextets) ==
    IF FirstZero(hextets, 8) THEN AddressType.Unspecified
    ELSE IF FirstZero(hextets, 7) /\ hextets[8] = 1 THEN AddressType.Loopback
    ELSE IF hextets[1] = 65152 THEN AddressType.LinkLocal
    ELSE IF BitAnd(hextets[1], 65024) = 64512 THEN AddressType.UniqueLocal
    ELSE IF BitAnd(hextets[1], 65280) = 65280 THEN AddressType.Multicast
    ELSE IF FirstZero(hextets, 5) /\ hextets[6] = 65535 THEN AddressType.IPv4Mapped
    ELSE IF FirstZero(hextets, 6) THEN AddressType.IPv4Compatible
    ELSE IF hextets[1] = 8193 /\ hextets[2] = 0 THEN AddressType.Teredo
    ELSE IF hextets[1] = 8194 THEN AddressType.SixToFour
    ELSE IF hextets[1] = 8193 /\ BitAnd(hextets[2], 65528) = 3512
    THEN AddressType.Documentation
    ELSE IF BitAnd(hextets[1], 57344) = 8192 THEN AddressType.GlobalUnicast
    ELSE AddressType.Anycast

\* getAddressType with the global unicast test moved before the Teredo test
getAddressTypeUnicastFirst(hextets) ==
    IF FirstZero(hextets, 8) THEN AddressType.Unspecified
    ELSE IF FirstZero(hextets, 7) /\ hextets[8] = 1 THEN AddressType.Loopback
    ELSE IF hextets[1] = 65152 THEN AddressType.LinkLocal
    ELSE IF BitAnd(hextets[1], 65024) = 64512 THEN AddressType.UniqueLocal
    ELSE IF BitAnd(hextets[1], 65280) = 65280 THEN AddressType.Multicast
    ELSE IF FirstZero(hextets, 5) /\ hextets[6] = 65535 THEN AddressType.IPv4Mapped
    ELSE IF FirstZero(hextets, 6) THEN AddressType.IPv4Compatible
    ELSE IF BitAnd(hextets[1], 57344) = 8192 THEN AddressType.GlobalUnicast
    ELSE IF hextets[1] = 8193 /\ hextets[2] = 0 THEN AddressType.Teredo
    ELSE IF hextets[1] = 8194 THEN AddressType.SixToFour
    ELSE IF hextets[1] = 8193 /\ BitAnd(hextets[2], 65528) = 3512
    THEN AddressType.Documentation
    ELSE AddressType.Reserved

\* lines 338-385: the tests in the order of the code, the first one that
\* passes decides
getAddressType(hextets) ==
    IF FirstZero(hextets, 8) THEN AddressType.Unspecified
    ELSE IF FirstZero(hextets, 7) /\ hextets[8] = 1 THEN AddressType.Loopback
    ELSE IF hextets[1] = 65152 THEN AddressType.LinkLocal
    ELSE IF BitAnd(hextets[1], 65024) = 64512 THEN AddressType.UniqueLocal
    ELSE IF BitAnd(hextets[1], 65280) = 65280 THEN AddressType.Multicast
    ELSE IF FirstZero(hextets, 5) /\ hextets[6] = 65535 THEN AddressType.IPv4Mapped
    ELSE IF FirstZero(hextets, 6) THEN AddressType.IPv4Compatible
    ELSE IF hextets[1] = 8193 /\ hextets[2] = 0 THEN AddressType.Teredo
    ELSE IF hextets[1] = 8194 THEN AddressType.SixToFour
    ELSE IF hextets[1] = 8193 /\ BitAnd(hextets[2], 65528) = 3512
    THEN AddressType.Documentation
    ELSE IF BitAnd(hextets[1], 57344) = 8192 THEN AddressType.GlobalUnicast
    ELSE AddressType.Reserved

getAddressScope(hextets, addressType) ==
    LET scopeField == BitAnd(hextets[1], 15)
    IN IF addressType \in {AddressType.Loopback, AddressType.Unspecified}
       THEN AddressScope.InterfaceLocal
       ELSE IF addressType = AddressType.LinkLocal THEN AddressScope.LinkLocal
       ELSE IF addressType = AddressType.UniqueLocal
       THEN AddressScope.OrganizationLocal
       ELSE IF addressType \in {AddressType.GlobalUnicast, AddressType.IPv4Mapped}
       THEN AddressScope.Global
       ELSE IF addressType = AddressType.Multicast
       THEN (IF scopeField = 1 THEN AddressScope.InterfaceLocal
             ELSE IF scopeField = 2 THEN AddressScope.LinkLocal
             ELSE IF scopeField = 4 THEN AddressScope.AdminLocal
             ELSE IF scopeField = 5 THEN AddressScope.SiteLocal
             ELSE IF scopeField = 8 THEN AddressScope.OrganizationLocal
             ELSE AddressScope.Global)
       ELSE AddressScope.Global

isIPv4Mapped(hextets) == FirstZero(hextets, 5) /\ hextets[6] = 65535

isIPv4Compatible(hextets) ==
    /\ FirstZero(hextets, 6)
    /\ (hextets[7] # 0 \/ hextets[8] # 0)
    /\ hextets[8] # 1

\* (interfaceId >> 24n) & 0xffffn is bits 24..39 of the interface identifier:
\* the high byte of its limb 1 under the low byte of its limb 2
isEUI64(hextets) ==
    LET interfaceId == BigOfHextets(SubSeq(hextets, 5, 8), BigInt(0))
        n == Max(Len(interfaceId.limbs), 3)
        limbs == BigExtend(interfaceId, n)
        middle16 == (limbs[n - 2] % 256) * 256 + limbs[n - 1] \div 256
    IN middle16 = 65534

getRFCCompliance(hextets, addressType) ==
    <<[rfc |-> "RFC 4291", title |-> "IP Version 6 Addressing Architecture",
       compliant |-> TRUE, notes |-> "Valid IPv6 address format"],
      [rfc |-> "RFC 5952",
       title |-> "A Recommendation for IPv6 Address Text Representation",
       compliant |-> TRUE,
       notes |-> "Follows canonical text representation rules"]>>
    \o (IF addressType = AddressType.UniqueLocal
        THEN <<[rfc |-> "RFC 4193", title |-> "Unique Local IPv6 Unicast Addresses",
                compliant |-> TRUE, notes |-> "Valid ULA format (fc00::/7)"]>>
        ELSE <<>>)
    \o (IF addressType = AddressType.LinkLocal
        THEN <<[rfc |-> "RFC 4007", title |-> "IPv6 Scoped Address Architecture",
                compliant |-> TRUE,
                notes |-> "Valid link-local address (fe80::/10)"]>>
        ELSE <<>>)

----------------------------------------------------------------------------
(* IPv6Parser.parse *)

\* the invalid record with the input echoed in its renderings
InvalidRecordEchoingInput(trimmedInput, error) ==
    [input |-> trimmedInput, isValid |-> FALSE, error |-> error,
     expanded |-> trimmedInput, compressed |-> trimmedInput, binary |-> <<>>, hex |-> <<>>,
     integer |-> <<>>, base64 |-> <<>>, networkAddress |-> <<>>,
     prefixLength |-> 0, firstAddress |-> <<>>, lastAddress |-> <<>>,
     totalHosts |-> <<>>, totalSubnets |-> <<>>, reverseDNS |-> <<>>,
     addressType |-> AddressType.Reserved, scope |-> AddressScope.Global,
     isIPv4Mapped |-> FALSE, isIPv4Compatible |-> FALSE, isEUI64 |-> FALSE,
     isSLAACCompatible |-> FALSE, rfcCompliance |-> <<>>]

\* lines 11-35: the record of an input that did not parse
InvalidRecord(trimmedInput, error) ==
    [input |-> trimmedInput, isValid |-> FALSE, error |-> error,
     expanded |-> <<>>, compressed |-> <<>>, binary |-> <<>>, hex |-> <<>>,
     integer |-> <<>>, base64 |-> <<>>, networkAddress |-> <<>>,
     prefixLength |-> 0, firstAddress |-> <<>>, lastAddress |-> <<>>,
     totalHosts |-> <<>>, totalSubnets |-> <<>>, reverseDNS |-> <<>>,
     addressType |-> AddressType.Reserved, scope |-> AddressScope.Global,
     isIPv4Mapped |-> FALSE, isIPv4Compatible |-> FALSE, isEUI64 |-> FALSE,
     isSLAACCompatible |-> FALSE, rfcCompliance |-> <<>>]

\* lines 38-74: the record of an input that parsed
RecordWith(trimmedInput, parsed, addressType, range) ==
       [input |-> trimmedInput, isValid |-> TRUE, error |-> Undefined,
        expanded |-> toExpanded(parsed.hextets),
        compressed |-> toCompressed(parsed.hextets),
        binary |-> toBinary(parsed.hextets),
        hex |-> toHex(parsed.hextets),
        integer |-> toInteger(parsed.hextets),
        base64 |-> toBase64(parsed.hextets),
        networkAddress |->
            toCompressed(getNetworkAddress(parsed.hextets, parsed.prefixLength))
            \o <<"/">> \o NumToString(parsed.prefixLength, 10),
        prefixLength |-> parsed.prefixLength,
        firstAddress |-> range.firstAddress,
        lastAddress |-> range.lastAddress,
        totalHosts |-> calculateTotalHosts(parsed.prefixLength),
        totalSubnets |-> calculateTotalSubnets(parsed.prefixLength),
        reverseDNS |-> toReverseDNS(parsed.hextets),
        addressType |-> addressType,
        scope |-> getAddressScope(parsed.hextets, addressType),
        isIPv4Mapped |-> isIPv4Mapped(parsed.hextets),
        isIPv4Compatible |-> isIPv4Compatible(parsed.hextets),
        isEUI64 |-> isEUI64(parsed.hextets),
        isSLAACCompatible |-> parsed.prefixLength = 64,
        rfcCompliance |-> getRFCCompliance(parsed.hextets, addressType)]

ValidRecord(trimmedInput, parsed) ==
    RecordWith(trimmedInput, parsed, getAddressType(parsed.hextets),
               getAddressRange(parsed.hextets, parsed.prefixLength))

\* lines 7-74.  No call made on the valid path throws for the integers of
\* the model (every byte handed to btoa is masked to 0..255); the catch of
\* lines 75-101, which gives InvalidRecord with the message of the exception,
\* needs a group that parseInt reads as -Infinity (more than 256 hex digits).
RecordOf(trimmedInput, parsed) ==
    IF ~parsed.isValid
    THEN InvalidRecord(trimmedInput, parsed.error)
    ELSE ValidRecord(trimmedInput, parsed)

ParseTrimmedInput(trimmedInput) ==
    RecordOf(trimmedInput, parseIPv6String(trimmedInput))

parse(input) == ParseTrimmedInput(Trim(input))

----------------------------------------------------------------------------
(* IPv6Subnetting *)

\* expanded.split(':').map(hex => parseInt(hex, 16)); every part of a text
\* made by toExpanded starts with a digit, so none reads as NaN
parseHextets(expanded) ==
    LET parts == Split(expanded, Colon)
    IN [i \in 1..Len(parts) |-> parseInt(parts[i], 16).val]

hextetsToAddress(hextets) ==
    Join([i \in 1..Len(hextets) |-> padStart(NumToString(hextets[i], 16), 4, "0")],
         Colon)

\* lines 114-126: the loop, from the hextet at currentHextetIndex on
RECURSIVE WriteSubnetBits(_, _, _, _, _, _)
WriteSubnetBits(result, hextetIndex, bitsInHextet, currentIndex, remainingSubnetBits, currentHextetIndex) ==
    IF ~(remainingSubnetBits > 0 /\ currentHextetIndex < 8) THEN result
    ELSE LET availableBitsInHextet ==
                 16 - (IF currentHextetIndex = hextetIndex THEN bitsInHextet ELSE 0)
             bitsToUse == Min(remainingSubnetBits, availableBitsInHextet)
             shift == availableBitsInHextet - bitsToUse
             mask == Shl(Shl(1, bitsToUse) - 1, shift)
             subnetPart == BitAnd(Shr(currentIndex, remainingSubnetBits - bitsToUse),
                                  Shl(1, bitsToUse) - 1)
             written == BitOr(BitAnd(result[currentHextetIndex + 1], BitNot(mask)),
                              Shl(subnetPart, shift))
         IN WriteSubnetBits([result EXCEPT ![currentHextetIndex + 1] = written],
                            hextetIndex, bitsInHextet, currentIndex,
                            remainingSubnetBits - bitsToUse, currentHextetIndex + 1)

\* calculateSubnetAddress writing from the top bit of the hextet the prefix
\* ends in
calculateSubnetAddressFromHextetTop(baseHextets, basePrefixLength, targetPrefixLength, subnetIndex) ==
    WriteSubnetBits(baseHextets, basePrefixLength \div 16, 0,
                    subnetIndex, targetPrefixLength - basePrefixLength,
                    basePrefixLength \div 16)

calculateSubnetAddress(baseHextets, basePrefixLength, targetPrefixLength, subnetIndex) ==
    WriteSubnetBits(baseHextets, basePrefixLength \div 16, basePrefixLength % 16,
                    subnetIndex, targetPrefixLength - basePrefixLength,
                    basePrefixLength \div 16)

getSubnetRange(hextets, prefixLength) ==
    LET fullHextets == prefixLength \div 16
        remainingBits == prefixLength % 16
        hostMask == Shl(1, 16 - remainingBits) - 1
    IN [first |-> hextetsToAddress(
                     [i \in 1..Len(hextets) |->
                        IF i - 1 < fullHextets THEN hextets[i]
                        ELSE IF i - 1 = fullHextets /\ remainingBits > 0
                        THEN BitAnd(hextets[i], BitNot(hostMask))
                        ELSE 0]),
        last |-> hextetsToAddress(
                     [i \in 1..Len(hextets) |->
                        IF i - 1 < fullHextets THEN hextets[i]
                        ELSE IF i - 1 = fullHextets /\ remainingBits > 0
                        THEN BitOr(hextets[i], hostMask)
                        ELSE 65535])]

calculateHostCount(prefixLength) ==
    LET hostBits == 128 - prefixLength
    IN IF hostBits >= 64 THEN <<"2", "^">> \o NumToString(hostBits, 10)
       ELSE Pow2ToLocaleString(hostBits)

\* Math.pow(2, k): the number itself up to 2^30, and above it the record
\* [pow2 |-> k], which stands for the double 2^k
MathPow2(k) == IF k <= 30 THEN Pow(2, k) ELSE [pow2 |-> k]

\* Math.min(count, Math.pow(2, k)) for a count below 2^30
MathMin(count, k) ==
    IF k <= 30 THEN Min(count, Pow(2, k)) ELSE count

\* no count argument
NoCount == <<>>

\* lines 20-22: count ? Math.min(count, totalPossibleSubnets) : totalPossibleSubnets
subnetsToGenerate(prefixLength, targetPrefixLength, count) ==
    LET subnetBits == targetPrefixLength - prefixLength
    IN IF count # NoCount /\ count[1] # 0
       THEN MathMin(count[1], subnetBits)
       ELSE MathPow2(subnetBits)

\* lines 27-39: one SubnetInfo per index below subnetsToGenerate
InfoWith(network, range, targetPrefixLength) ==
    [network |-> network \o <<"/">> \o NumToString(targetPrefixLength, 10),
     firstAddress |-> range.first,
     lastAddress |-> range.last,
     broadcastAddress |-> range.last,
     totalHosts |-> calculateHostCount(targetPrefixLength)]

InfoOf(subnetHextets, targetPrefixLength) ==
    InfoWith(hextetsToAddress(subnetHextets),
             getSubnetRange(subnetHextets, targetPrefixLength), targetPrefixLength)

SubnetInfo(baseHextets, prefixLength, targetPrefixLength, i) ==
    InfoOf(calculateSubnetAddress(baseHextets, prefixLength, targetPrefixLength, i),
           targetPrefixLength)

Throw(message) == [kind |-> "error", message |-> message]

\* lines 24-39
GenerateSubnets(baseHextets, prefixLength, targetPrefixLength, n) ==
    [k \in 1..n |-> SubnetInfo(baseHextets, prefixLength, targetPrefixLength, k - 1)]

\* calculateSubnets letting a target equal to the prefix length through
PlanForEqualTarget(prefix, parsed, targetPrefixLength, count) ==
    IF ~parsed.isValid THEN Throw("Invalid IPv6 prefix")
    ELSE IF targetPrefixLength < parsed.prefixLength
    THEN Throw("Target prefix length must be longer than current prefix")
    ELSE IF targetPrefixLength > 128
    THEN Throw("Target prefix length cannot exceed 128")
    ELSE [kind |-> "plan",
          originalPrefix |-> prefix,
          targetPrefixLength |-> targetPrefixLength,
          subnets |-> GenerateSubnets(
                          parseHextets(parsed.expanded), parsed.prefixLength,
                          targetPrefixLength,
                          subnetsToGenerate(parsed.prefixLength, targetPrefixLength,
                                            count)),
          totalSubnets |-> MathPow2(targetPrefixLength - parsed.prefixLength)]

\* lines 8-46, parsed being IPv6Parser.parse(prefix)
PlanFor(prefix, parsed, targetPrefixLength, count) ==
    IF ~parsed.isValid THEN Throw("Invalid IPv6 prefix")
    ELSE IF targetPrefixLength <= parsed.prefixLength
    THEN Throw("Target prefix length must be longer than current prefix")
    ELSE IF targetPrefixLength > 128
    THEN Throw("Target prefix length cannot exceed 128")
    ELSE [kind |-> "plan",
          originalPrefix |-> prefix,
          targetPrefixLength |-> targetPrefixLength,
          subnets |-> GenerateSubnets(
                          parseHextets(parsed.expanded), parsed.prefixLength,
                          targetPrefixLength,
                          subnetsToGenerate(parsed.prefixLength, targetPrefixLength,
                                            count)),
          totalSubnets |-> MathPow2(targetPrefixLength - parsed.prefixLength)]

calculateSubnets(prefix, targetPrefixLength, count) ==
    PlanFor(prefix, parse(prefix), targetPrefixLength, count)

----------------------------------------------------------------------------
(* The address field: the text is edited and IPv6Parser.parse is called on   *)
(* the whole text after every edit.                                          *)

\* the longest body typed character by character
MaxBodyLen == 5

\* the characters typed: a separator, a hex digit, a sign, a letter that is
\* no hex digit
TypedChars == {":", "1", "-", "g"}

\* the texts appended after the body
Suffixes ==
    {<<"/">>, <<"/", "0">>, <<"/", "6", "4">>, <<"/", "1", "2", "8">>,
     <<"/", "1", "2", "9">>, <<"/", "0", "0", "6", "4">>, <<"/", "-", "1">>,
     <<"/", "+", "1">>, <<"/", "g">>, <<"/", "6", "4", "g">>,
     <<"/", "6", "4", "/", "4", "8">>, <<"/", "6", "4", " ">>}

\* whole addresses pasted into the field
PastedBodies ==
    {<<"2","0","0","1",":","d","b","8",":",":">>,
     <<":",":","f","f","f","f",":","1","9","2",".","1","6","8",".","1",".","1">>,
     <<":",":","F","F","F","F",":","1",".","2",".","3",".","2","5","6">>,
     <<"2","0","0","1",":","d","b","8",":",":","1",":",":","2">>,
     <<"1",":","2",":","3",":","4",":","5",":","6",":","7",":","8">>,
     <<"1",":","2",":","3",":","4",":","5",":","6",":","7",":","8",":","9">>,
     <<"1",":",":","3",":","4",":","5",":","6",":","7",":","8",":","9">>,
     <<" ",":",":","1">>,
     <<"1",":","2",":","3",":","4",":","5",":","6",":","7",":","8",":">>,
     <<"f","e","8","0",":",":","0","2","f","f",":","f","e","0","0",":","1">>}

NoPlan == [kind |-> "none"]

NoArgs == [targetPrefixLength |-> 0, count |-> NoCount]

\* the text handed to parse
Input == body \o suffix

\* parse(text): the record and the ParsedIPv6 it was built from
ParsedAs(text, name) ==
    /\ rec' = parse(text)
    /\ parsedRec' = parseIPv6String(Trim(text))
    /\ op' = name

Parsed(text) == ParsedAs(text, "parse")

Init ==
    /\ body = <<>>
    /\ suffix = <<>>
    /\ word = <<>>
    /\ rec = parse(<<>>)
    /\ parsedRec = parseIPv6String(<<>>)
    /\ planRes = NoPlan
    /\ args = NoArgs
    /\ op = "init"

Type(c) ==
    /\ Len(body) < MaxBodyLen
    /\ body' = Append(body, c)
    /\ Parsed(body' \o suffix)
    /\ UNCHANGED <<suffix, word, planRes, args>>

Paste(text) ==
    /\ body = <<>>
    /\ body' = text
    /\ Parsed(body' \o suffix)
    /\ UNCHANGED <<suffix, word, planRes, args>>

AppendSuffix(text) ==
    /\ suffix = <<>>
    /\ suffix' = text
    /\ Parsed(body \o suffix')
    /\ UNCHANGED <<body, word, planRes, args>>

Next ==
    \/ \E c \in TypedChars : Type(c)
    \/ \E text \in PastedBodies : Paste(text)
    \/ \E text \in Suffixes : AppendSuffix(text)

Spec == Init /\ [][Next]_vars

----------------------------------------------------------------------------
(* A 128-bit value is rendered, the rendering is parsed, and the compressed  *)
(* text of the record is parsed again.                                       *)

\* the values of each of the eight words: the boundaries of the
\* classification in the first two, every count of hex digits, and runs of
\* zero words of different lengths and places
WordValues ==
    <<{0, 1, 8193, 8194, 16383, 16384, 64512, 65152, 65215, 65282},
      {0, 3512, 3520},
      {0, 255},
      {0, 1},
      {0, 1},
      {0, 65535},
      {0, 49320},
      {0, 1, 2}>>

Word128 ==
    {<<a, b, c, d, e, f, g, h>> :
        a \in WordValues[1], b \in WordValues[2], c \in WordValues[3],
        d \in WordValues[4], e \in WordValues[5], f \in WordValues[6],
        g \in WordValues[7], h \in WordValues[8]}

InitWord ==
    /\ word \in Word128
    /\ body = <<>>
    /\ suffix = <<>>
    /\ rec = parse(<<>>)
    /\ parsedRec = parseIPv6String(<<>>)
    /\ planRes = NoPlan
    /\ args = NoArgs
    /\ op = "word"

\* parse(toCompressed(word))
ParseCompressed ==
    /\ op = "word"
    /\ body' = toCompressed(word)
    /\ ParsedAs(body', "compressed")
    /\ UNCHANGED <<suffix, word, planRes, args>>

\* parse(toExpanded(word))
ParseExpanded ==
    /\ op = "word"
    /\ body' = toExpanded(word)
    /\ ParsedAs(body', "expanded")
    /\ UNCHANGED <<suffix, word, planRes, args>>

\* parse(record.compressed)
Reparse ==
    /\ op \in {"compressed", "expanded"}
    /\ rec.isValid
    /\ body' = rec.compressed
    /\ ParsedAs(body', "reparsed")
    /\ UNCHANGED <<suffix, word, planRes, args>>

NextWord == ParseCompressed \/ ParseExpanded \/ Reparse

SpecWord == InitWord /\ [][NextWord]_vars

----------------------------------------------------------------------------
(* IPv6Subnetting.calculateSubnets is called on a prefix text.               *)

\* the most subnet bits of a plan that is generated in full
MaxSubnetBits == 3

PlanWords ==
    { <<8193, 3512, 0, 0, 0, 0, 0, 0>>,
      <<65535, 65535, 65535, 65535, 65535, 65535, 65535, 65535>>,
      <<8193, 3512, 43981, 0, 0, 0, 0, 1>> }

PlanPrefixLengths == {0, 1, 15, 16, 17, 31, 32, 47, 48, 63, 64, 65, 111, 112,
                      125, 126, 127, 128}

\* texts that are not prefixes
BadPrefixes ==
    { <<>>,
      <<"g", ":", ":", "/", "3", "2">>,
      <<"2", "0", "0", "1", ":", "d", "b", "8", "/", "3", "2">>,
      <<":", ":", "/", "1", "2", "9">> }

PrefixText(w, p) == toCompressed(w) \o <<"/">> \o NumToString(p, 10)

TargetLengths(p) == ((p - 1)..(p + MaxSubnetBits + 1)) \cup {64, 128, 129, 130}

Counts == {NoCount, <<0>>, <<1>>, <<3>>, <<8>>, <<1000>>}

\* the subnets of the call on a prefix that parses as the record can be held
\* in a list of the model
Enumerable(parsed, targetPrefixLength, count) ==
    LET subnetBits == targetPrefixLength - parsed.prefixLength
    IN (parsed.isValid /\ subnetBits > 0 /\ targetPrefixLength <= 128)
           => \/ subnetBits <= MaxSubnetBits + 1
              \/ /\ subnetBits <= 30 \/ (count # NoCount /\ count[1] # 0)
                 /\ subnetsToGenerate(parsed.prefixLength, targetPrefixLength, count)
                        <= Pow(2, MaxSubnetBits + 1)

InitPlan ==
    /\ body \in {PrefixText(w, p) : w \in PlanWords, p \in PlanPrefixLengths}
                    \cup BadPrefixes
    /\ suffix = <<>>
    /\ word = <<>>
    /\ rec = parse(body)
    /\ parsedRec = parseIPv6String(Trim(body))
    /\ planRes = NoPlan
    /\ args = NoArgs
    /\ op = "parse"

\* calculateSubnets(body, t, count), as the subnetting tool calls it on the
\* text of a record
Plan(t, count) ==
    /\ op = "parse"
    /\ Enumerable(rec, t, count)
    /\ planRes' = calculateSubnets(body, t, count)
    /\ args' = [targetPrefixLength |-> t, count |-> count]
    /\ op' = "plan"
    /\ UNCHANGED <<body, suffix, word, rec, parsedRec>>

NextPlan == \E t \in TargetLengths(rec.prefixLength), count \in Counts : Plan(t, count)

SpecPlan == InitPlan /\ [][NextPlan]_vars

----------------------------------------------------------------------------
(* Properties of parse *)

\* the text parse works on
Trimmed == Trim(Input)

HasSlash(text) == LastSlash(text, Len(text)) > 0

\* the text after the last "/"
LengthPart(text) == Drop(text, LastSlash(text, Len(text)))

\* the number of places where "::" stands in the text
MarkerCount(text) ==
    Cardinality({i \in 1..(Len(text) - 1) : text[i] = ":" /\ text[i + 1] = ":"})

\* C2: a valid record's word sequence has exactly 8 elements, each an
\* integer in 0..0xFFFF.
C2_ValidWordsInRange ==
    (op = "parse" /\ rec.isValid) =>
        /\ Len(parsedRec.hextets) = 8
        /\ \A i \in 1..Len(parsedRec.hextets) : parsedRec.hextets[i] \in 0..65535

\* C3: a body holding more than one "::" marker, at any position, is refused
\* with the multiple-markers error.
C3_MultipleMarkersRefused ==
    (op = "parse" /\ suffix = <<>> /\ ~HasSlash(Trimmed) /\ MarkerCount(Trimmed) > 1) =>
        /\ ~rec.isValid
        /\ rec.error = "Multiple :: not allowed"

\* C4: an invalid record carries an error detail and every derived field of
\* it is empty or default.
C4_InvalidRecordIsEmpty ==
    (op = "parse" /\ ~rec.isValid) =>
        /\ rec.error \in {"Invalid prefix length", "Multiple :: not allowed",
                          "Invalid hexadecimal value", "Invalid IPv6 address format"}
        /\ rec.input = Trimmed
        /\ \A f \in {"expanded", "compressed", "binary", "hex", "integer", "base64",
                     "networkAddress", "firstAddress", "lastAddress", "totalHosts",
                     "totalSubnets", "reverseDNS", "rfcCompliance"} : rec[f] = <<>>
        /\ rec.prefixLength = 0
        /\ \A f \in {"isIPv4Mapped", "isIPv4Compatible", "isEUI64",
                     "isSLAACCompatible"} : rec[f] = FALSE
        /\ rec.addressType = AddressType.Reserved
        /\ rec.scope = AddressScope.Global

C4_InvalidRecordReached ==
    /\ op = "parse"
    /\ ~rec.isValid
    /\ rec.error = "Invalid hexadecimal value"
    /\ Len(Trimmed) > 2

\* a "/" suffix whose length part is empty, not a decimal number (a sign
\* included) or outside 0..128
BadLengthSuffix(text) ==
    /\ HasSlash(text)
    /\ \/ ~AllDecimal(LengthPart(text))
       \/ Number(LengthPart(text)) \notin 0..128

\* C5: an input with a malformed or out-of-range "/" suffix is refused: it
\* is never accepted with the suffix ignored or replaced by the length 128.
\* (The refusal is also said to carry the prefix-length error.)
C5_BadSuffixRefused ==
    (op = "parse" /\ BadLengthSuffix(Trimmed)) => ~rec.isValid

\* C6: a valid record's prefixLength is in 0..128; when the input has a "/"
\* suffix it is the decimal value of that suffix, and when the input has no
\* "/" suffix it is 128.
C6_PrefixLength ==
    (op = "parse" /\ rec.isValid) =>
        /\ rec.prefixLength \in 0..128
        /\ ~HasSlash(Trimmed) => rec.prefixLength = 128
        /\ HasSlash(Trimmed) =>
               /\ AllDecimal(LengthPart(Trimmed))
               /\ rec.prefixLength = Number(LengthPart(Trimmed))

----------------------------------------------------------------------------
(* Properties of the renderings *)

\* C1: the compressed (and the expanded) rendering of a 128-bit value parses
\* back to the same eight words, and the compressed text of the parsed
\* record is the compressed text that was parsed.
C1_RoundTrip ==
    (op \in {"compressed", "expanded", "reparsed"}) =>
        /\ rec.isValid
        /\ parsedRec.hextets = word
        /\ op \in {"compressed", "reparsed"} => rec.compressed = body

C1_CompressedReparsed ==
    /\ op = "reparsed"
    /\ word = <<0, 0, 255, 0, 0, 0, 49320, 1>>
    /\ body = <<"0", ":", "0", ":", "f", "f", ":", ":", "c", "0", "a", "8", ":", "1">>
    /\ parsedRec.hextets = word

\* the classifications parse gives; AddressType.Anycast is not one of them
Classifications ==
    {AddressType.Unspecified, AddressType.Loopback, AddressType.Multicast,
     AddressType.LinkLocal, AddressType.UniqueLocal, AddressType.GlobalUnicast,
     AddressType.IPv4Mapped, AddressType.IPv4Compatible, AddressType.Teredo,
     AddressType.SixToFour, AddressType.Documentation, AddressType.Reserved}

\* C7: every valid record has one of the twelve classifications, and never
\* Anycast.
C7_ClassificationTotal ==
    (op \in {"compressed", "expanded", "reparsed"} /\ rec.isValid) =>
        /\ rec.addressType \in Classifications
        /\ rec.addressType # AddressType.Anycast
        /\ rec.addressType = getAddressType(word)

C7_ReservedReached ==
    /\ op = "compressed"
    /\ rec.isValid
    /\ word[1] = 16384
    /\ rec.addressType = AddressType.Reserved

----------------------------------------------------------------------------
(* Properties of calculateSubnets *)

\* the eight words of an address text
Words(text) == parseIPv6String(text).hextets

\* the 128-bit value after w; the value after the last one is the first one
RECURSIVE Succ(_, _)
Succ(w, i) ==
    IF i = 0 THEN w
    ELSE IF w[i] = 65535 THEN Succ([w EXCEPT ![i] = 0], i - 1)
    ELSE [w EXCEPT ![i] = w[i] + 1]

\* v <= w as 128-bit values
RECURSIVE AtMost(_, _, _)
AtMost(v, w, i) ==
    IF i > 8 THEN TRUE
    ELSE IF v[i] # w[i] THEN v[i] < w[i]
    ELSE AtMost(v, w, i + 1)

\* the plan holds every subnet of the parent
FullPlan ==
    /\ op = "plan"
    /\ planRes.kind = "plan"
    /\ args.targetPrefixLength - rec.prefixLength <= MaxSubnetBits + 1
    /\ Len(planRes.subnets) = Pow(2, args.targetPrefixLength - rec.prefixLength)

\* C8: the subnets of a fully generated plan are non-empty ranges that
\* partition the parent range: the first starts at the parent's first
\* address, each next one starts right after the one before it ends, the
\* last ends at the parent's last address; and totalSubnets is 2^(t-p).
C8_SubnetsPartitionParent ==
    FullPlan =>
        LET subnets == planRes.subnets
            n == Len(subnets)
        IN /\ planRes.totalSubnets = Pow(2, args.targetPrefixLength - rec.prefixLength)
           /\ Words(subnets[1].firstAddress) = Words(rec.firstAddress)
           /\ Words(subnets[n].lastAddress) = Words(rec.lastAddress)
           /\ \A i \in 1..n :
                 AtMost(Words(subnets[i].firstAddress), Words(subnets[i].lastAddress), 1)
           /\ \A i \in 1..(n - 1) :
                 Words(subnets[i + 1].firstAddress)
                     = Succ(Words(subnets[i].lastAddress), 8)

C8_StraddlingPlanReached ==
    /\ FullPlan
    /\ rec.prefixLength = 15
    /\ args.targetPrefixLength = 18
    /\ Len(planRes.subnets) = 8
    /\ planRes.totalSubnets = 8

\* C9: with a limit L given, the plan holds min(L, 2^(t-p)) subnets, for
\* every integer L >= 0.
C9_LimitedLength ==
    (op = "plan" /\ planRes.kind = "plan" /\ args.count # NoCount
         /\ args.count[1] >= 0) =>
        Len(planRes.subnets)
            = MathMin(args.count[1], args.targetPrefixLength - rec.prefixLength)

\* C10: the call fails exactly when the prefix text is not valid, or the
\* target is not longer than the prefix, or the target is over 128; a
\* failure gives an error and no plan, and any other call gives the plan for
\* the prefix and the target.
C10_FailsExactlyWhen ==
    (op = "plan") =>
        /\ planRes.kind \in {"error", "plan"}
        /\ planRes.kind = "error" <=>
               \/ ~rec.isValid
               \/ args.targetPrefixLength <= rec.prefixLength
               \/ args.targetPrefixLength > 128
        /\ planRes.kind = "error" =>
               /\ DOMAIN planRes = {"kind", "message"}
               /\ ~rec.isValid <=> planRes.message = "Invalid IPv6 prefix"
        /\ planRes.kind = "plan" =>
               /\ planRes.originalPrefix = body
               /\ planRes.targetPrefixLength = args.targetPrefixLength

C10_TargetOver128Refused ==
    /\ op = "plan"
    /\ rec.isValid
    /\ rec.prefixLength = 64
    /\ args.targetPrefixLength = 129
    /\ planRes = Throw("Target prefix length cannot exceed 128")

----------------------------------------------------------------------------
(* The scenario plan("2001:db8::/32", 34) *)

ScenarioPrefix == <<"2", "0", "0", "1", ":", "d", "b", "8", ":", ":", "/", "3", "2">>

ScenarioNetworks ==
    << <<"2", "0", "0", "1", ":", "d", "b", "8", ":", ":", "/", "3", "4">>,
       <<"2", "0", "0", "1", ":", "d", "b", "8", ":", "4", "0", "0", "0", ":", ":", "/", "3", "4">>,
       <<"2", "0", "0", "1", ":", "d", "b", "8", ":", "8", "0", "0", "0", ":", ":", "/", "3", "4">>,
       <<"2", "0", "0", "1", ":", "d", "b", "8", ":", "c", "0", "0", "0", ":", ":", "/", "3", "4">> >>

\* C11: calculateSubnets("2001:db8::/32", 34) without a count gives exactly
\* four subnets, whose network fields are 2001:db8::/34, 2001:db8:4000::/34,
\* 2001:db8:8000::/34 and 2001:db8:c000::/34 in that order.
C11_ScenarioNetworks ==
    (op = "plan" /\ body = ScenarioPrefix /\ args.targetPrefixLength = 34
         /\ args.count = NoCount) =>
        /\ planRes.kind = "plan"
        /\ Len(planRes.subnets) = 4
        /\ [i \in 1..4 |-> planRes.subnets[i].network] = ScenarioNetworks

----------------------------------------------------------------------------
(* Properties of the compressed form *)

\* the groups of a text without "::", each padded to four digits
PaddedGroups(text) ==
    IF text = <<>> THEN <<>>
    ELSE LET groups == Split(text, Colon)
         IN [i \in 1..Len(groups) |-> padStart(groups[i], 4, "0")]

\* the text with its "::" replaced by the zero groups it stands for and
\* every group padded to four digits
Uncompressed(text) ==
    LET k == IndexOf(text, DoubleColon, 1)
        left == PaddedGroups(Take(text, k - 1))
        right == PaddedGroups(Drop(text, k + 1))
    IN IF k = 0 THEN Join(PaddedGroups(text), Colon)
       ELSE Join(left \o [i \in 1..(8 - Len(left) - Len(right)) |-> ZeroGroup]
                      \o right, Colon)

\* C12: the compressed form of a 128-bit value holds at most one "::", and
\* with the "::" replaced by the elided zero groups and every group padded
\* to four digits it is the expanded form.
C12_CompressionCanonical ==
    (op = "compressed") =>
        /\ body = toCompressed(word)
        /\ MarkerCount(body) <= 1
        /\ Uncompressed(body) = toExpanded(word)

C12_TwoRunsCompressedOnce ==
    /\ op = "compressed"
    /\ word = <<8193, 3512, 0, 0, 1, 0, 0, 1>>
    /\ MarkerCount(body) = 1
    /\ Uncompressed(body) = toExpanded(word)

\* b - a + 1 zero words stand at a..b
ZeroRun(w, a, b) == a <= b /\ \A i \in a..b : w[i] = 0

\* the runs of two or more zero words that no longer run and no run of the
\* same length further left beats
BestRuns(w) ==
    {r \in (1..8) \X (1..8) :
        /\ r[2] > r[1]
        /\ ZeroRun(w, r[1], r[2])
        /\ \A q \in (1..8) \X (1..8) :
              ZeroRun(w, q[1], q[2]) =>
                  \/ q[2] - q[1] < r[2] - r[1]
                  \/ q[2] - q[1] = r[2] - r[1] /\ q[1] >= r[1]}

\* the words a..b of w, each in hex without leading zeros
HexWords(w, a, b) == [i \in 1..(b - a + 1) |-> NumToString(w[a + i - 1], 16)]

\* the text with the run r replaced by "::"
CompressedAt(w, r) ==
    Join(HexWords(w, 1, r[1] - 1), Colon) \o DoubleColon
        \o Join(HexWords(w, r[2] + 1, 8), Colon)

\* C13: the compressed form replaces by "::" exactly the longest run of two
\* or more zero words, the leftmost one on a tie; without such a run nothing
\* is compressed; every other word is in hex without leading zeros; the
\* all-zero value is "::".
C13_LongestLeftmostRun ==
    (op = "compressed") =>
        /\ BestRuns(word) = {} => body = Join(HexWords(word, 1, 8), Colon)
        /\ \A r \in BestRuns(word) : body = CompressedAt(word, r)
        /\ word = Zeros(8) => body = DoubleColon

C13_TieReached ==
    /\ op = "compressed"
    /\ word = <<1, 0, 0, 1, 1, 0, 0, 1>>
    /\ BestRuns(word) = {<<2, 3>>}
    /\ body = <<"1", ":", ":", "1", ":", "1", ":", "0", ":", "0", ":", "1">>

----------------------------------------------------------------------------
(* Properties of the groups of a body *)

HexDigits == {"0", "1", "2", "3", "4", "5", "6", "7", "8", "9",
              "a", "b", "c", "d", "e", "f", "A", "B", "C", "D", "E", "F"}

\* one to four hex digits and nothing else
WellFormedGroup(g) == Len(g) \in 1..4 /\ \A i \in 1..Len(g) : g[i] \in HexDigits

\* the non-empty groups between the colons of a text
Groups(text) == NonEmpty(Split(text, Colon))

\* a text of colons and groups only: no "/" suffix, no dotted quad
PlainBody(text) == ~HasSlash(text) /\ \A i \in 1..Len(text) : text[i] # "."

\* C14: a body with a group that is longer than four characters, holds a
\* character that is not a hex digit (also after hex digits) or carries a
\* sign is refused.  (The refusal is also said to carry the hextet error.)
C14_MalformedGroupRefused ==
    (op = "parse" /\ PlainBody(Trimmed)
         /\ \E i \in 1..Len(Groups(Trimmed)) : ~WellFormedGroup(Groups(Trimmed)[i])) =>
        ~rec.isValid


\* the groups before and after the "::" of a text that has one
GroupsBefore(text) == Groups(Split(text, DoubleColon)[1])

GroupsAfter(text) == Groups(Split(text, DoubleColon)[2])

AllWellFormed(text) == \A i \in 1..Len(Groups(text)) : WellFormedGroup(Groups(text)[i])

\* C15: a body without "::" is valid only when splitting it on ":" gives
\* exactly 8 groups; a body with one "::" is valid only when the groups
\* before and after it are at most 8, and then the words between them are
\* zero; a refusal for the group count carries the format error.
C15_GroupCounts ==
    (op = "parse" /\ PlainBody(Trimmed)) =>
        /\ (MarkerCount(Trimmed) = 0 /\ rec.isValid) =>
               Len(Split(Trimmed, Colon)) = 8
        /\ (MarkerCount(Trimmed) = 1 /\ rec.isValid) =>
               /\ Len(GroupsBefore(Trimmed)) + Len(GroupsAfter(Trimmed)) <= 8
               /\ \A i \in (Len(GroupsBefore(Trimmed)) + 1)..(8 - Len(GroupsAfter(Trimmed))) :
                      parsedRec.hextets[i] = 0
        /\ (MarkerCount(Trimmed) <= 1 /\ AllWellFormed(Trimmed) /\ ~rec.isValid) =>
               rec.error = "Invalid IPv6 address format"


\* the four octets of a text of the form ::ffff:a.b.c.d, <<>> for another text
Octets(text) == Ipv4Parts(ipv4MappedMatch(text))

\* C16: a body ::ffff:a.b.c.d whose octets are all in 0..255 is valid with
\* the words 0,0,0,0,0,0xffff,(a<<8)|b,(c<<8)|d; with an octet outside that
\* range it is refused, never accepted under another reading.
C16_MappedOctets ==
    (op = "parse" /\ ~HasSlash(Trimmed) /\ Octets(Trimmed) # <<>>) =>
        IF \A i \in 1..4 : Octets(Trimmed)[i] <= 255
        THEN /\ parsedRec.isValid
             /\ parsedRec.hextets =
                    <<0, 0, 0, 0, 0, 65535,
                      Octets(Trimmed)[1] * 256 + Octets(Trimmed)[2],
                      Octets(Trimmed)[3] * 256 + Octets(Trimmed)[4]>>
        ELSE ~parsedRec.isValid

----------------------------------------------------------------------------
(* The range and the counts of a prefix *)

\* words whose bits vary around every word boundary
RangeWords ==
    { <<0, 0, 0, 0, 0, 0, 0, 0>>,
      <<65535, 65535, 65535, 65535, 65535, 65535, 65535, 65535>>,
      <<65244, 47768, 30292, 12816, 291, 17767, 35243, 52719>>,
      <<21845, 43690, 21845, 43690, 21845, 43690, 21845, 43690>>,
      <<8193, 3512, 0, 0, 0, 0, 0, 1>>,
      <<32768, 1, 32768, 1, 32768, 1, 32768, 1>>,
      <<65152, 0, 0, 0, 767, 65024, 0, 65534>> }

PrefixLengths == 0..128

InitRange ==
    /\ word \in RangeWords
    /\ body = <<>>
    /\ suffix = <<>>
    /\ rec = parse(<<>>)
    /\ parsedRec = parseIPv6String(<<>>)
    /\ planRes = NoPlan
    /\ args = NoArgs
    /\ op = "word"

\* parse(toCompressed(word) + "/" + p)
ParsePrefix(p) ==
    /\ op = "word"
    /\ body' = toCompressed(word)
    /\ suffix' = <<"/">> \o NumToString(p, 10)
    /\ ParsedAs(body' \o suffix', "prefix")
    /\ UNCHANGED <<word, planRes, args>>

NextRange == \E p \in PrefixLengths : ParsePrefix(p)

SpecRange == InitRange /\ [][NextRange]_vars

\* bit i of a word sequence, bit 0 the most significant of the first word
Bit(w, i) == (w[(i \div 16) + 1] \div Pow(2, 15 - (i % 16))) % 2

\* v is w with the bits from p on replaced by the bit b
BitsFrom(v, w, p, b) ==
    \A i \in 0..127 : Bit(v, i) = (IF i < p THEN Bit(w, i) ELSE b)

RangeHolds(w, p, network, first, last) ==
    /\ BitsFrom(network, w, p, 0)
    /\ BitsFrom(last, w, p, 1)
    /\ first = network
    /\ AtMost(network, w, 1)
    /\ AtMost(w, last, 1)

\* C17: for every prefix length p in 0..128 the network address is the
\* address with the bits p..127 cleared, the last address is the address
\* with the bits p..127 set, the bits before p are unchanged in both, the
\* first address is the network address, and network <= address <= last.
C17_RangeBits ==
    (op = "prefix") =>
        /\ rec.isValid
        /\ parsedRec.hextets = word
        /\ rec.networkAddress = rec.firstAddress \o suffix
        /\ RangeHolds(word, rec.prefixLength,
                      getNetworkAddress(word, rec.prefixLength),
                      Words(rec.firstAddress), Words(rec.lastAddress))

C17_PartialWordReached ==
    /\ op = "prefix"
    /\ word = <<65244, 47768, 30292, 12816, 291, 17767, 35243, 52719>>
    /\ rec.prefixLength = 21
    /\ rec.firstAddress = <<"f","e","d","c",":","b","8","0","0",":",":">>
    /\ Words(rec.lastAddress) = <<65244, 49151, 65535, 65535, 65535, 65535, 65535, 65535>>


\* the decimal digits of 2^k
ExactPow2(k) == BigToString(BigPow2(k))

\* 2^k (digits)
PowerNotation(k) ==
    <<"2", "^">> \o NumToString(k, 10) \o <<" ", "(">> \o ExactPow2(k) \o <<")">>

\* C18: for every prefix length p in 0..128 the host count of the record is
\* 2^(128-p), written as 2^k with the full decimal value for p >= 64 and as
\* the plain exact decimal for p < 64.
C18_HostCount ==
    (op = "prefix" /\ rec.isValid) =>
        rec.totalHosts = (IF rec.prefixLength >= 64
                          THEN PowerNotation(128 - rec.prefixLength)
                          ELSE ExactPow2(128 - rec.prefixLength))

----------------------------------------------------------------------------
(* Properties of the classification *)

\* the top n bits of the first word
TopBits(w, n) == w[1] \div Pow(2, 16 - n)

\* C19: the all-zero address is Unspecified; seven zero words and a last
\* word 1 are Loopback; top 10 bits 1111111010 (first word 0xfe80..0xfebf)
\* are LinkLocal; top 7 bits 1111110 are UniqueLocal; top 8 bits 11111111
\* are Multicast.
C19_PrefixRules ==
    (op = "compressed" /\ rec.isValid) =>
        /\ word = Zeros(8) => rec.addressType = AddressType.Unspecified
        /\ word = <<0, 0, 0, 0, 0, 0, 0, 1>> => rec.addressType = AddressType.Loopback
        /\ TopBits(word, 10) = 1018 => rec.addressType = AddressType.LinkLocal
        /\ TopBits(word, 7) = 126 => rec.addressType = AddressType.UniqueLocal
        /\ TopBits(word, 8) = 255 => rec.addressType = AddressType.Multicast


\* none of the rules for Unspecified, Loopback, LinkLocal (fe80::/10),
\* UniqueLocal and Multicast applies
PastPrefixRules(w) ==
    /\ w # Zeros(8)
    /\ w # <<0, 0, 0, 0, 0, 0, 0, 1>>
    /\ TopBits(w, 10) # 1018
    /\ TopBits(w, 7) # 126
    /\ TopBits(w, 8) # 255

\* the classification the remaining rules give, the first match winning
LaterRule(w) ==
    IF (\A i \in 1..5 : w[i] = 0) /\ w[6] = 65535 THEN AddressType.IPv4Mapped
    ELSE IF \A i \in 1..6 : w[i] = 0 THEN AddressType.IPv4Compatible
    ELSE IF w[1] = 8193 /\ w[2] = 0 THEN AddressType.Teredo
    ELSE IF w[1] = 8194 THEN AddressType.SixToFour
    ELSE IF w[1] = 8193 /\ w[2] \in 3512..3519 THEN AddressType.Documentation
    ELSE IF TopBits(w, 3) = 1 THEN AddressType.GlobalUnicast
    ELSE AddressType.Reserved

LowWords(w) == <<w[7], w[8]>>

\* C21: isIPv4Compatible is true exactly when the first six words are zero
\* and the value of the last two words is neither 0 nor 1, that is exactly
\* for the addresses classified IPv4Compatible; isIPv4Mapped is true exactly
\* for the addresses classified IPv4Mapped.
C21_FlagsMirrorClassification ==
    (op = "compressed" /\ rec.isValid) =>
        /\ rec.isIPv4Compatible = ((\A i \in 1..6 : word[i] = 0) /\ LowWords(word) \notin {<<0, 0>>, <<0, 1>>})
        /\ rec.isIPv4Compatible = (rec.addressType = AddressType.IPv4Compatible)
        /\ rec.isIPv4Mapped = (rec.addressType = AddressType.IPv4Mapped)

----------------------------------------------------------------------------
(* Properties of the subnets of a plan *)

\* the words of the address part of a subnet's network field
NetworkWords(info) == parseHextets(Take(info.network, 39))

\* bit k of an index below 2^31, bit 0 the least significant
IndexBit(i, k) == IF k > 30 THEN 0 ELSE (i \div Pow(2, k)) % 2

\* net is base with the bits p..t-1 replaced by the index, its most
\* significant bit first
IndexWritten(net, base, p, t, i) ==
    \A b \in 0..127 :
        Bit(net, b) = (IF p <= b /\ b < t THEN IndexBit(i, t - 1 - b) ELSE Bit(base, b))

\* C22: the network value of the subnet of index i is the base value with
\* the bits p..t-1 replaced by the (t-p)-bit binary representation of i and
\* every other bit left as in the base, for every width t-p, also ranges
\* that begin or end inside a word, span several words or are wider than 32
\* bits.
C22_IndexBitsWritten ==
    (op = "plan" /\ planRes.kind = "plan") =>
        \A k \in 1..Len(planRes.subnets) :
            IndexWritten(NetworkWords(planRes.subnets[k]), parsedRec.hextets,
                         rec.prefixLength, args.targetPrefixLength, k - 1)


\* v is below w as a 128-bit number
Below(v, w) == v # w /\ AtMost(v, w, 1)

\* C23: the subnets of a plan stand in the order of their indices and their
\* network addresses are strictly increasing as 128-bit numbers, so no two
\* of them are equal.
C23_NetworksIncrease ==
    (op = "plan" /\ planRes.kind = "plan") =>
        \A k \in 1..(Len(planRes.subnets) - 1) :
            Below(NetworkWords(planRes.subnets[k]), NetworkWords(planRes.subnets[k + 1]))


\* the subnet record and the record parse gives for its network field hold
\* the same first and last address
SameRange(info, codec) ==
    /\ codec.isValid
    /\ Words(info.firstAddress) = Words(codec.firstAddress)
    /\ Words(info.lastAddress) = Words(codec.lastAddress)
    /\ info.broadcastAddress = info.lastAddress

\* C24: the first address, the last address and the host count of every
\* subnet of a plan are the ones parse reports for the subnet's network
\* field, and the broadcast address is the last address.  (The addresses
\* are compared as 128-bit values, the host counts as the texts they are.)
C24_SubnetAgreesWithParse ==
    (op = "plan" /\ planRes.kind = "plan") =>
        \A k \in 1..Len(planRes.subnets) :
            /\ SameRange(planRes.subnets[k], parse(planRes.subnets[k].network))
            /\ planRes.subnets[k].totalHosts = parse(planRes.subnets[k].network).totalHosts


\* the count the subnetting tool passes while "show all" is off: useState(8)
SafetyCeiling == 8

\* C26: a plan asked for with no limit holds at most a ceiling number of
\* subnets, however many subnets the target length makes possible.
C26_UnlimitedPlanCapped ==
    (op = "plan" /\ planRes.kind = "plan" /\ args.count = NoCount) =>
        Len(planRes.subnets) <= SafetyCeiling

----------------------------------------------------------------------------
(* IPv6Subnetting.summarizeRoutes *)

\* the remainder of JavaScript's %, which has the sign of the dividend
Remainder(a, b) == IF a >= 0 THEN a % b ELSE -((-a) % b)

\* lines 178-189: the zero bits of a 16-bit value above its highest set bit,
\* counted from bit 15 down
RECURSIVE LeadingZeros(_, _)
LeadingZeros(xor, bit) ==
    IF bit < 0 THEN 0
    ELSE IF BitAnd(xor, Shl(1, bit)) = 0 THEN 1 + LeadingZeros(xor, bit - 1)
    ELSE 0

\* lines 176-194: the loop over the hextets from index i on
RECURSIVE CommonBits(_, _, _)
CommonBits(hextets1, hextets2, i) ==
    IF i >= 8 THEN 0
    ELSE IF BitXor(hextets1[i + 1], hextets2[i + 1]) = 0
    THEN 16 + CommonBits(hextets1, hextets2, i + 1)
    ELSE LeadingZeros(BitXor(hextets1[i + 1], hextets2[i + 1]), 15)

findCommonPrefixLength(addr1, addr2) ==
    CommonBits(parseHextets(addr1), parseHextets(addr2), 0)

\* lines 203-213: the loop runs from fullHextets, which is below 0 for a
\* negative prefix length; a write at a negative index does not change the
\* eight hextets
MaskedHextets(hextets, fullHextets, remainingBits) ==
    [i \in 1..Len(hextets) |->
        IF i - 1 < fullHextets THEN hextets[i]
        ELSE IF i - 1 = fullHextets /\ remainingBits > 0
        THEN BitAnd(hextets[i], BitAnd(Shl(65535, 16 - remainingBits), 65535))
        ELSE 0]

getNetworkHextets(expanded, prefixLength) ==
    MaskedHextets(parseHextets(expanded), prefixLength \div 16,
                  Remainder(prefixLength, 16))

\* a.expanded.localeCompare(b.expanded) < 0, for two expanded forms: they
\* differ first in a hex digit, and the digits collate in their order
RECURSIVE ComesBefore(_, _, _)
ComesBefore(a, b, i) ==
    IF i > Len(a) \/ i > Len(b) THEN FALSE
    ELSE IF a[i] # b[i] THEN CharValue[a[i]] < CharValue[b[i]]
    ELSE ComesBefore(a, b, i + 1)

\* Array.prototype.sort is stable: a record goes behind the sorted records
\* that do not come after it
RECURSIVE Inserted(_, _)
Inserted(sorted, r) ==
    IF Len(sorted) = 0 THEN <<r>>
    ELSE IF ComesBefore(r.expanded, sorted[Len(sorted)].expanded, 1)
    THEN Inserted(SubSeq(sorted, 1, Len(sorted) - 1), r) \o <<sorted[Len(sorted)]>>
    ELSE sorted \o <<r>>

RECURSIVE Sorted(_)
Sorted(records) ==
    IF Len(records) = 0 THEN <<>>
    ELSE Inserted(Sorted(SubSeq(records, 1, Len(records) - 1)), records[Len(records)])

RECURSIVE ValidOnly(_)
ValidOnly(records) ==
    IF Len(records) = 0 THEN <<>>
    ELSE IF records[1].isValid THEN <<records[1]>> \o ValidOnly(Tail(records))
    ELSE ValidOnly(Tail(records))

\* lines 51-54
Networks(prefixes) == Sorted(ValidOnly([i \in 1..Len(prefixes) |-> parse(prefixes[i])]))

\* lines 72-79
MergedAt(currentBlock, mergedPrefixLength) ==
    [currentBlock EXCEPT
        !.networkAddress =
            hextetsToAddress(getNetworkHextets(currentBlock.expanded, mergedPrefixLength))
                \o <<"/">> \o NumToString(mergedPrefixLength, 10),
        !.prefixLength = mergedPrefixLength]

Mergeable(currentBlock, next, commonPrefixLength) ==
    commonPrefixLength >= Min(currentBlock.prefixLength, next.prefixLength) - 1

\* lines 60-88: the loop from networks[i] on, and the last push
RECURSIVE MergeFrom(_, _, _, _)

\* lines 69-84: one turn of the loop, the common prefix length being known
MergeNext(networks, i, currentBlock, summarized, commonPrefixLength) ==
    IF Mergeable(currentBlock, networks[i + 1], commonPrefixLength)
    THEN MergeFrom(networks, i + 1,
                   MergedAt(currentBlock,
                            Min(commonPrefixLength, currentBlock.prefixLength - 1)),
                   summarized)
    ELSE MergeFrom(networks, i + 1, networks[i + 1],
                   summarized \o <<currentBlock.networkAddress>>)

MergeFrom(networks, i, currentBlock, summarized) ==
    IF i >= Len(networks) THEN summarized \o <<currentBlock.networkAddress>>
    ELSE MergeNext(networks, i, currentBlock, summarized,
                   findCommonPrefixLength(currentBlock.expanded, networks[i + 1].expanded))

Summarized(networks) ==
    IF Len(networks) = 0 THEN <<>> ELSE MergeFrom(networks, 1, networks[1], <<>>)

summarizeRoutes(prefixes) == Summarized(Networks(prefixes))

----------------------------------------------------------------------------
(* IPv6Subnetting.summarizeRoutes is called on a list of prefix texts.       *)

MaxPrefixes == 3

RouteTexts ==
    { <<":",":","/","0">>,
      <<"2","0","0","1",":","d","b","8",":",":","/","3","3">>,
      <<"2","0","0","1",":","d","b","8",":","8","0","0","0",":",":","/","3","3">>,
      <<"2","0","0","1",":","d","b","8",":",":","/","6","4">>,
      <<"2","0","0","1",":","d","b","8",":",":","/","4","8">>,
      <<"2","0","0","1",":","d","b","8",":","0",":","1",":",":","/","6","4">>,
      <<"f","e","8","0",":",":","/","1","0">>,
      <<"g",":",":","/","3","2">> }

RouteLists == UNION {[1..n -> RouteTexts] : n \in 0..MaxPrefixes}

InitRoutes ==
    /\ args \in {[prefixes |-> l] : l \in RouteLists}
    /\ body = <<>>
    /\ suffix = <<>>
    /\ word = <<>>
    /\ rec = parse(<<>>)
    /\ parsedRec = parseIPv6String(<<>>)
    /\ planRes = NoPlan
    /\ op = "routes"

\* summarizeRoutes(prefixes)
Summarize ==
    /\ op = "routes"
    /\ planRes' = [kind |-> "summary", routes |-> summarizeRoutes(args.prefixes)]
    /\ op' = "summarize"
    /\ UNCHANGED <<body, suffix, word, rec, parsedRec, args>>

NextRoutes == Summarize

SpecRoutes == InitRoutes /\ [][NextRoutes]_vars


----------------------------------------------------------------------------
(* Properties of summarizeRoutes *)

\* the words and the length text of a route "address/length"
RouteWords(route) == Words(Take(route, LastSlash(route, Len(route)) - 1))

RouteLength(route) == LengthPart(route)

\* the number of leading bits two word sequences have in common
CommonLeading(u, v) ==
    Cardinality({n \in 1..128 : \A i \in 0..(n - 1) : Bit(u, i) = Bit(v, i)})

\* the route is the network of the words w at the prefix length m
IsNetworkAt(route, w, m) ==
    /\ BitsFrom(RouteWords(route), w, m, 0)
    /\ RouteLength(route) = NumToString(m, 10)

\* the summary of the block a followed by the entry b, c being the number of
\* their common leading bits
PairRule(routes, a, b, c) ==
    IF c >= Min(a.prefixLength, b.prefixLength) - 1
    THEN /\ Len(routes) = 1
         /\ IsNetworkAt(routes[1], parseHextets(a.expanded),
                        Min(c, Min(a.prefixLength, b.prefixLength) - 1))
    ELSE routes = <<a.networkAddress, b.networkAddress>>

PairOf(routes, networks) ==
    PairRule(routes, networks[1], networks[2],
             CommonLeading(parseHextets(networks[1].expanded),
                           parseHextets(networks[2].expanded)))

\* C25: two valid entries a and b, a before b in the order of the expanded
\* forms, are merged exactly when the number c of their common leading bits
\* is at least min(len(a), len(b)) - 1, into the network of a at the length
\* min(c, min(len(a), len(b)) - 1); otherwise both are given unchanged.
C25_MergeRule ==
    (op = "summarize" /\ Len(Networks(args.prefixes)) = 2) =>
        PairOf(planRes.routes, Networks(args.prefixes))


\* the words of a subnet's first address
FirstWords(info) == parseHextets(info.firstAddress)

\* C27: in every plan the network field of each subnet is a network
\* address: its bits from the target length on are zero, so that its
\* address part is the subnet's first address, also when the prefix text
\* has bits set beyond its prefix length.
C27_NetworkFieldIsNetwork ==
    (op = "plan" /\ planRes.kind = "plan") =>
        \A k \in 1..Len(planRes.subnets) :
            /\ \A b \in args.targetPrefixLength..127 :
                   Bit(NetworkWords(planRes.subnets[k]), b) = 0
            /\ NetworkWords(planRes.subnets[k]) = FirstWords(planRes.subnets[k])


\* an address, a "/" and a length of decimal digits in 0..128
WellFormedRoute(route) ==
    /\ HasSlash(route)
    /\ AllDecimal(RouteLength(route))
    /\ Number(RouteLength(route)) <= 128
    /\ parseIPv6String(Take(route, LastSlash(route, Len(route)) - 1)).isValid

ValidCount(prefixes) == Cardinality({i \in 1..Len(prefixes) : parse(prefixes[i]).isValid})

\* C28: every text of a summary is a well-formed prefix with a length in
\* 0..128, never a negative one; the summary has at most as many entries as
\* there are valid inputs and is empty exactly when there is none.
C28_SummaryWellFormed ==
    (op = "summarize") =>
        /\ \A k \in 1..Len(planRes.routes) : WellFormedRoute(planRes.routes[k])
        /\ Len(planRes.routes) <= ValidCount(args.prefixes)
        /\ (planRes.routes = <<>>) = (ValidCount(args.prefixes) = 0)


\* the length of a route as a number, a negative one included
LengthValue(route) ==
    IF RouteLength(route)[1] = "-" THEN -Number(Tail(RouteLength(route)))
    ELSE Number(RouteLength(route))

\* the range of the prefix of the words w and length p lies in the range of
\* the route: the route's length is at most p and its leading bits are w's
\* (a route of a length below 0 is taken to hold every address)
Covers(route, w, p) ==
    /\ LengthValue(route) <= p
    /\ \A b \in 0..(LengthValue(route) - 1) : Bit(RouteWords(route), b) = Bit(w, b)

CoveredBy(routes, parsed) ==
    \E k \in 1..Len(routes) : Covers(routes[k], parsed.hextets, parsed.prefixLength)

\* C29: the range of every valid input prefix lies within the range of one
\* of the prefixes of the summary.
C29_NoRouteLost ==
    (op = "summarize") =>
        \A i \in 1..Len(args.prefixes) :
            parseIPv6String(args.prefixes[i]).isValid =>
                CoveredBy(planRes.routes, parseIPv6String(args.prefixes[i]))


\* the lists that hold the entries of l in another order
Reorderings(l) ==
    {[i \in 1..Len(l) |-> l[q[i]]] :
        q \in {f \in [1..Len(l) -> 1..Len(l)] : \A i, j \in 1..Len(l) : f[i] = f[j] => i = j}}

\* C30: the summary of a list of prefixes is the summary of every
\* permutation of the list.
C30_OrderIndependent ==
    (op = "summarize") =>
        \A l \in Reorderings(args.prefixes) : summarizeRoutes(l) = planRes.routes

============================================================================
